---- MODULE Spec2Model ----
(***************************************************************************)
(* Multi-party Schnorr (MuSig style) signing, src/protocols/multi_sig.     *)
(*                                                                         *)
(* The elliptic-curve group of the algebra library is instantiated with    *)
(* the prime-order curve y^2 = x^3 + 7 over F_13 (the secp256k1 equation   *)
(* over a small field): 7 points, generator G = (7,5).  A point is held as *)
(* its index k (the point k*G, 0 = the point at infinity); coordinates are *)
(* read from the table of multiples of G.  BigInt values are naturals;     *)
(* the output of a hash is held as the byte string that was hashed (a      *)
(* collision-free hash), and is reduced to a scalar from the integer whose *)
(* base-256 digits are 1 followed by those bytes.                          *)
(***************************************************************************)
EXTENDS Integers, Sequences, FiniteSets, TLC

VARIABLES n, sk, msg, musig_bit, agg, eph, tested, r_hat, chal, partial, sig, vres

vars == <<n, sk, msg, musig_bit, agg, eph, tested, r_hat, chal, partial, sig, vres>>

----------------------------------------------------------------------------
(* Bounds of the model.                                                    *)

\* private keys are drawn from 1..MaxSk
MaxSk == 2
\* random nonces are drawn from 1..MaxNonce
MaxNonce == 2
\* blind factors are drawn from 0..MaxBlind
MaxBlind == 0
\* messages are byte strings of at most MaxMsgLen bytes
MaxMsgLen == 1

\* the byte values messages are built from
MsgBytes == {0, 1}
\* the numbers of signers of a session: the two-signer and the N-signer case
Parties == {2, 3}

----------------------------------------------------------------------------
(* The algebra library: group, scalars, BigInt conversions.                *)

\* k*G for k = 1..6 on y^2 = x^3 + 7 over F_13, G = (7,5)
CurvePoints == << <<7, 5>>, <<8, 5>>, <<11, 8>>, <<11, 5>>, <<8, 8>>, <<7, 8>> >>

\* FE::get_q(): the order of the group
CurveOrder == Len(CurvePoints) + 1

Points == 0 .. (CurveOrder - 1)

\* ECPoint::new(): the base point G
BasePoint == 1

\* GE::scalar_mul
scalar_mul(P, fe) == (P * fe) % CurveOrder

\* GE::add_point
add_point(P, Q) == (P + Q) % CurveOrder

\* GE::get_x_coor_as_big_int (0, which is no x coordinate of the curve, for
\* the point at infinity)
get_x_coor_as_big_int(P) == IF P = 0 THEN 0 ELSE CurvePoints[P][1]

\* GE::bytes_compressed_to_big_int: the byte 02 (y even) or 03 (y odd)
\* followed by the x coordinate, read as a big-endian integer
bytes_compressed_to_big_int(P) ==
    IF P = 0 THEN 0
    ELSE (IF CurvePoints[P][2] % 2 = 0 THEN 2 ELSE 3) * 256 + CurvePoints[P][1]

\* BigInt::mod_add, BigInt::mod_mul, BigInt::mod_sub
mod_add(a, b, m) == (a + b) % m
mod_mul(a, b, m) == (a * b) % m
mod_sub(a, b, m) == (((a % m) - (b % m)) + m) % m

RECURSIVE BigInt_from(_)
\* BigInt::from(&[u8]): the big-endian value of a byte string
BigInt_from(bytes) ==
    IF bytes = <<>> THEN 0
    ELSE BigInt_from(SubSeq(bytes, 1, Len(bytes) - 1)) * 256 + bytes[Len(bytes)]

RECURSIVE BigInt_to_vec(_)
\* BigInt::to_vec: the shortest big-endian byte string of a number, one zero
\* byte for 0
BigInt_to_vec(v) ==
    IF v < 256 THEN <<v>>
    ELSE Append(BigInt_to_vec(v \div 256), v % 256)

RECURSIVE to_hex(_)
\* BigInt::to_hex: the hexadecimal digits of a number
to_hex(v) ==
    IF v < 16 THEN <<v>>
    ELSE Append(to_hex(v \div 16), v % 16)

RECURSIVE create_hash(_)
\* HSha256::create_hash: the bytes of every BigInt of the vector are fed to
\* the hash one after the other; the digest is held as the bytes hashed
create_hash(vec) ==
    IF vec = <<>> THEN <<>>
    ELSE BigInt_to_vec(Head(vec)) \o create_hash(Tail(vec))

RECURSIVE DigestMod(_, _)
\* the digest, read as the integer with digits 1 followed by the hashed
\* bytes, reduced modulo m
DigestMod(d, m) ==
    IF d = <<>> THEN 1 % m
    ELSE (DigestMod(SubSeq(d, 1, Len(d) - 1), m) * 256 + d[Len(d)]) % m

\* ECScalar::from_big_int of a number
from_big_int(v) == v % CurveOrder

\* ECScalar::from_big_int of a hash output
from_digest(d) == DigestMod(d, CurveOrder)

\* HashCommitment::create_commitment_with_user_defined_randomness
create_commitment_with_user_defined_randomness(message, blind) ==
    create_hash(<<message, blind>>)

----------------------------------------------------------------------------
(* KeyPair and KeyAgg.                                                     *)

\* KeyPair::create_from_private_key
KeyPair_create_from_private_key(private_key) ==
    [public_key |-> scalar_mul(BasePoint, from_big_int(private_key)),
     private_key |-> from_big_int(private_key)]

\* KeyAgg::key_aggregation
key_aggregation(my_pk, other_pk) ==
    LET hash == create_hash(<<1, get_x_coor_as_big_int(my_pk),
                              get_x_coor_as_big_int(my_pk),
                              get_x_coor_as_big_int(other_pk)>>)
        a1 == scalar_mul(my_pk, from_digest(hash))
        hash2 == create_hash(<<1, get_x_coor_as_big_int(other_pk),
                               get_x_coor_as_big_int(my_pk),
                               get_x_coor_as_big_int(other_pk)>>)
        a2 == scalar_mul(other_pk, from_digest(hash2))
    IN [apk |-> add_point(a2, a1), hash |-> hash]

RECURSIVE sum_points(_)
\* the fold of add_point over a non-empty vector of points
sum_points(v) ==
    IF Len(v) = 1 THEN v[1]
    ELSE add_point(sum_points(SubSeq(v, 1, Len(v) - 1)), v[Len(v)])

\* mutant of hash_vec: the signer's own key is left out of the hash input
hash_vec_without_own_key(pks) ==
    LET x_coor_vec == [i \in 1..Len(pks) |-> get_x_coor_as_big_int(pks[i])]
    IN [i \in 1..Len(pks) |-> create_hash(<<1>> \o x_coor_vec)]

\* the hash_vec of key_aggregation_n
hash_vec(pks) ==
    LET x_coor_vec == [i \in 1..Len(pks) |-> get_x_coor_as_big_int(pks[i])]
    IN [i \in 1..Len(pks) |-> create_hash(<<1, x_coor_vec[i]>> \o x_coor_vec)]

\* KeyAgg::key_aggregation_n; party_index counts from 0
key_aggregation_n(pks, party_index) ==
    LET hv == hash_vec(pks)
        apk_vec == [i \in 1..Len(pks) |-> scalar_mul(pks[i], from_digest(hv[i]))]
    IN [apk |-> sum_points(apk_vec), hash |-> hv[party_index + 1]]

----------------------------------------------------------------------------
(* EphemeralKey.                                                           *)

\* EphemeralKey::create, the random nonce being r and the blind factor of the
\* commitment scheme being bf
EphemeralKey_create(r, bf) ==
    LET keypair == KeyPair_create_from_private_key(r)
    IN [keypair |-> keypair,
        commitment |-> create_commitment_with_user_defined_randomness(
                           get_x_coor_as_big_int(keypair.public_key), bf),
        blind_factor |-> bf]

\* the hash create_from_private_key derives the nonce from
hash_private_key_message(x1, message) ==
    create_hash(<<x1.private_key, BigInt_from(message)>>)

\* EphemeralKey::create_from_private_key, bf the blind factor drawn by the
\* commitment scheme
EphemeralKey_create_from_private_key(x1, message, bf) ==
    LET ephemeral_private_key == from_digest(hash_private_key_message(x1, message))
        ephemeral_public_key == scalar_mul(BasePoint, ephemeral_private_key)
    IN [keypair |-> [public_key |-> ephemeral_public_key,
                     private_key |-> ephemeral_private_key],
        commitment |-> create_commitment_with_user_defined_randomness(
                           bytes_compressed_to_big_int(ephemeral_public_key), bf),
        blind_factor |-> bf]

\* mutant of test_com: the commitment is recomputed from the compressed
\* point, as create_from_private_key commits
test_com_compressed(r_to_test, blind_factor, comm) ==
    create_commitment_with_user_defined_randomness(
        bytes_compressed_to_big_int(r_to_test), blind_factor) = comm

\* EphemeralKey::test_com
test_com(r_to_test, blind_factor, comm) ==
    create_commitment_with_user_defined_randomness(
        get_x_coor_as_big_int(r_to_test), blind_factor) = comm

\* EphemeralKey::add_ephemeral_pub_keys
add_ephemeral_pub_keys(r1, r2) == add_point(r1, r2)

\* EphemeralKey::hash_0
hash_0(r, apk, message, bit) ==
    IF bit
    THEN create_hash(<<0, get_x_coor_as_big_int(r),
                       bytes_compressed_to_big_int(apk), BigInt_from(message)>>)
    ELSE create_hash(<<get_x_coor_as_big_int(r),
                       bytes_compressed_to_big_int(apk), BigInt_from(message)>>)

\* EphemeralKey::add_signature_parts
add_signature_parts(s1, s2, r_tag) ==
    <<get_x_coor_as_big_int(r_tag), mod_add(s1, s2, CurveOrder)>>

\* mutant of sign: the aggregation coefficient is left out
sign_without_coefficient(r, c, x, a) ==
    mod_add(r.keypair.private_key,
            mod_mul(from_digest(c), x.private_key, CurveOrder),
            CurveOrder)

\* EphemeralKey::sign; c and a are hash outputs
sign(r, c, x, a) ==
    mod_add(r.keypair.private_key,
            mod_mul(from_digest(c),
                    mod_mul(x.private_key, from_digest(a), CurveOrder),
                    CurveOrder),
            CurveOrder)

\* mutant of verify_challenge: the 0 is put in front in both modes
verify_challenge_always_prefixed(r_x, apk, message, bit) ==
    create_hash(<<0, r_x, bytes_compressed_to_big_int(apk), BigInt_from(message)>>)

\* the challenge verify recomputes
verify_challenge(r_x, apk, message, bit) ==
    IF bit
    THEN create_hash(<<0, r_x, bytes_compressed_to_big_int(apk), BigInt_from(message)>>)
    ELSE create_hash(<<r_x, bytes_compressed_to_big_int(apk), BigInt_from(message)>>)

\* mutant of verify: the full points are compared, s*G - c*apk with the
\* point of even y that has the x coordinate r_x
verify_full_point(signature, r_x, apk, message, bit) ==
    LET c == create_hash((IF bit THEN <<0>> ELSE <<>>)
                 \o <<r_x, bytes_compressed_to_big_int(apk), BigInt_from(message)>>)
        minus_c == mod_sub(CurveOrder, from_digest(c), CurveOrder)
        sum == add_point(scalar_mul(BasePoint, from_big_int(signature)),
                         scalar_mul(apk, from_big_int(minus_c)))
    IN IF sum # 0 /\ CurvePoints[sum][1] = r_x /\ CurvePoints[sum][2] % 2 = 0
       THEN "Ok" ELSE "ProofError"

\* verify
verify(signature, r_x, apk, message, bit) ==
    LET c == verify_challenge(r_x, apk, message, bit)
        minus_c == mod_sub(CurveOrder, from_digest(c), CurveOrder)
        sG == scalar_mul(BasePoint, from_big_int(signature))
        cY == scalar_mul(apk, from_big_int(minus_c))
        sum == add_point(sG, cY)
    IN IF to_hex(get_x_coor_as_big_int(sum)) = to_hex(r_x)
       THEN "Ok" ELSE "ProofError"

----------------------------------------------------------------------------
(* The state of a signing session.                                         *)
(*   n, sk, msg, musig_bit  the signers' private keys, the message and the *)
(*                          mode the session signs in                      *)
(*   agg      by: how the keys were aggregated; of[i]: signer i's KeyAgg   *)
(*   eph[i]   signer i's EphemeralKey and the constructor that made it     *)
(*   tested[j] the call of test_com on signer j's revealed nonce           *)
(*   r_hat, chal, partial[i], sig   the aggregated nonce, the challenge,   *)
(*                          the partial signatures and the signature       *)
(*   vres     a call of verify and its result                              *)
(* A value not yet computed is the empty tuple, a computed one a 1-tuple.  *)

Keys == 1 .. MaxSk
Nonces == 1 .. MaxNonce
Blinds == 0 .. MaxBlind

RECURSIVE ByteStrings(_)
ByteStrings(len) ==
    IF len = 0 THEN {<<>>}
    ELSE LET shorter == ByteStrings(len - 1)
         IN shorter \cup {Append(s, b) : s \in {t \in shorter : Len(t) = len - 1},
                                          b \in MsgBytes}

Msgs == ByteStrings(MaxMsgLen)

\* the byte strings a message is told from: every message of the model, and
\* the message with a zero byte put in front
Variants(m) == Msgs \cup {<<0>> \o m}

Signers == 1 .. n

\* the signers' long-term key pairs and public keys, in the agreed order
keypair(i) == KeyPair_create_from_private_key(sk[i])
pks == [i \in Signers |-> keypair(i).public_key]

Start ==
    /\ agg = [by |-> "none", of |-> <<>>]
    /\ eph = [i \in Signers |-> <<>>]
    /\ tested = [i \in Signers |-> <<>>]
    /\ r_hat = <<>>
    /\ chal = <<>>
    /\ partial = [i \in Signers |-> <<>>]
    /\ sig = <<>>
    /\ vres = <<>>

Init ==
    /\ n \in Parties
    /\ sk \in [Signers -> Keys]
    /\ msg \in Msgs
    /\ musig_bit \in BOOLEAN
    /\ Start

\* every signer calls key_aggregation_n on the same ordered list
KeyAggregationN ==
    /\ agg.by = "none"
    /\ agg' = [by |-> "n", of |-> [i \in Signers |-> key_aggregation_n(pks, i - 1)]]
    /\ UNCHANGED <<n, sk, msg, musig_bit, eph, tested, r_hat, chal, partial, sig, vres>>

\* both signers call key_aggregation with the agreed argument order (pk1, pk2)
KeyAggregationTwo ==
    /\ agg.by = "none"
    /\ n = 2
    /\ agg' = [by |-> "two", of |-> [i \in Signers |-> key_aggregation(pks[1], pks[2])]]
    /\ UNCHANGED <<n, sk, msg, musig_bit, eph, tested, r_hat, chal, partial, sig, vres>>

\* signer i calls EphemeralKey::create
Create(i, r, bf) ==
    /\ eph[i] = <<>>
    /\ eph' = [eph EXCEPT ![i] = <<[by |-> "create", key |-> EphemeralKey_create(r, bf)]>>]
    /\ UNCHANGED <<n, sk, msg, musig_bit, agg, tested, r_hat, chal, partial, sig, vres>>

\* signer i calls EphemeralKey::create_from_private_key
CreateFromPrivateKey(i, bf) ==
    /\ eph[i] = <<>>
    /\ eph' = [eph EXCEPT ![i] =
                 <<[by |-> "create_from_private_key",
                    key |-> EphemeralKey_create_from_private_key(keypair(i), msg, bf)]>>]
    /\ UNCHANGED <<n, sk, msg, musig_bit, agg, tested, r_hat, chal, partial, sig, vres>>

\* a co-signer calls test_com on what it received as signer j's reveal
TestCom(j, r_to_test, blind_factor, comm) ==
    /\ eph[j] # <<>>
    /\ tested[j] = <<>>
    /\ tested' = [tested EXCEPT ![j] =
                    <<[r_to_test |-> r_to_test, blind_factor |-> blind_factor,
                       comm |-> comm,
                       result |-> test_com(r_to_test, blind_factor, comm)]>>]
    /\ UNCHANGED <<n, sk, msg, musig_bit, agg, eph, r_hat, chal, partial, sig, vres>>

\* signer j's nonce point as the session holds it: the point delivered as
\* j's reveal, or j's own point where no reveal was delivered
revealed(j) ==
    IF tested[j] # <<>> THEN tested[j][1].r_to_test
    ELSE eph[j][1].key.keypair.public_key

RECURSIVE sum_ephemeral(_)
\* add_ephemeral_pub_keys applied along the signers' nonce points
sum_ephemeral(k) ==
    IF k = 1 THEN revealed(1)
    ELSE add_ephemeral_pub_keys(sum_ephemeral(k - 1), revealed(k))

AddEphemeralPubKeys ==
    /\ \A i \in Signers : eph[i] # <<>>
    /\ r_hat = <<>>
    /\ r_hat' = <<sum_ephemeral(n)>>
    /\ UNCHANGED <<n, sk, msg, musig_bit, agg, eph, tested, chal, partial, sig, vres>>

Hash0 ==
    /\ r_hat # <<>>
    /\ agg.by # "none"
    /\ chal = <<>>
    /\ chal' = <<hash_0(r_hat[1], agg.of[1].apk, msg, musig_bit)>>
    /\ UNCHANGED <<n, sk, msg, musig_bit, agg, eph, tested, r_hat, partial, sig, vres>>

\* signer i calls sign with its nonce, its key pair and the coefficient its
\* key aggregation returned
Sign(i) ==
    /\ chal # <<>>
    /\ partial[i] = <<>>
    /\ partial' = [partial EXCEPT ![i] =
                     <<sign(eph[i][1].key, chal[1], keypair(i), agg.of[i].hash)>>]
    /\ UNCHANGED <<n, sk, msg, musig_bit, agg, eph, tested, r_hat, chal, sig, vres>>

RECURSIVE sum_parts(_)
\* add_signature_parts applied along the signers' partial signatures
sum_parts(k) ==
    IF k = 2 THEN add_signature_parts(partial[1][1], partial[2][1], r_hat[1])
    ELSE add_signature_parts(sum_parts(k - 1)[2], partial[k][1], r_hat[1])

AddSignatureParts ==
    /\ \A i \in Signers : partial[i] # <<>>
    /\ sig = <<>>
    /\ sig' = <<sum_parts(n)>>
    /\ UNCHANGED <<n, sk, msg, musig_bit, agg, eph, tested, r_hat, chal, partial, vres>>

\* verify is called on (signature, r_x) against the session's apk
Verify(signature, message, bit) ==
    /\ sig # <<>>
    /\ vres = <<>>
    /\ vres' = <<[signature |-> signature, r_x |-> sig[1][1], message |-> message,
                  musig_bit |-> bit,
                  result |-> verify(signature, sig[1][1], agg.of[1].apk, message, bit)]>>
    /\ UNCHANGED <<n, sk, msg, musig_bit, agg, eph, tested, r_hat, chal, partial, sig>>

----------------------------------------------------------------------------
(* Spec: a session run in the order of the rounds, every reveal delivered  *)
(* as it was sent; the session goes on to aggregate the nonces once every  *)
(* commitment has opened.  verify is then called on the signature, on the  *)
(* signature with s + 1, against another byte string, or in the other mode.*)

AllCreated == \A i \in Signers : eph[i] # <<>>
AllOpened == \A i \in Signers : tested[i] # <<>> /\ tested[i][1].result

\* the lowest signer that has not acted yet in f
NextOf(f) == CHOOSE i \in Signers : f[i] = <<>> /\ \A k \in 1..(i - 1) : f[k] # <<>>

Pending(f) == \E i \in Signers : f[i] = <<>>

Next ==
    \/ KeyAggregationN
    \/ KeyAggregationTwo
    \/ /\ agg.by # "none"
       /\ Pending(eph)
       /\ \E r \in Nonces, bf \in Blinds : Create(NextOf(eph), r, bf)
    \/ /\ agg.by # "none"
       /\ Pending(eph)
       /\ \E bf \in Blinds : CreateFromPrivateKey(NextOf(eph), bf)
    \/ /\ AllCreated
       /\ Pending(tested)
       /\ LET j == NextOf(tested)
              e == eph[j][1].key
          IN TestCom(j, e.keypair.public_key, e.blind_factor, e.commitment)
    \/ /\ AllOpened
       /\ AddEphemeralPubKeys
    \/ Hash0
    \/ /\ Pending(partial)
       /\ Sign(NextOf(partial))
    \/ AddSignatureParts
    \/ /\ sig # <<>>
       /\ \E signature \in {sig[1][2], mod_add(sig[1][2], 1, CurveOrder)},
             message \in Variants(msg), bit \in BOOLEAN :
             /\ Cardinality({signature} \ {sig[1][2]}) + Cardinality({message} \ {msg})
                  + Cardinality({bit} \ {musig_bit}) <= 1
             /\ Verify(signature, message, bit)

Spec == Init /\ [][Next]_vars

----------------------------------------------------------------------------
(* SpecApi: the operations of a two-signer session as signer 1 may call    *)
(* them, in any order the functions accept.  The reveal of the co-signer   *)
(* that is handed to test_com is what the network delivered: the point or  *)
(* the commitment may have been replaced.  The nonces are summed once the  *)
(* co-signer's reveal has been delivered, whatever test_com returned.      *)

\* the commitments a network may deliver
Commitments ==
    {create_commitment_with_user_defined_randomness(get_x_coor_as_big_int(P), bf) :
        P \in Points, bf \in Blinds}

InitApi ==
    /\ n = 2
    /\ sk \in [Signers -> Keys]
    /\ msg = <<1>>
    /\ musig_bit = TRUE
    /\ Start

NextApi ==
    \/ KeyAggregationN
    \/ KeyAggregationTwo
    \/ \E i \in Signers, r \in Nonces, bf \in Blinds : Create(i, r, bf)
    \/ \E i \in Signers, bf \in Blinds : CreateFromPrivateKey(i, bf)
    \/ \E j \in Signers \ {1}, r_to_test \in Points, comm \in Commitments :
          /\ eph[j] # <<>>
          /\ \/ r_to_test = eph[j][1].key.keypair.public_key
             \/ comm = eph[j][1].key.commitment
          /\ TestCom(j, r_to_test, eph[j][1].key.blind_factor, comm)
    \/ /\ \A j \in Signers \ {1} : tested[j] # <<>>
       /\ AddEphemeralPubKeys
    \/ Hash0
    \/ \E i \in Signers : Sign(i)
    \/ AddSignatureParts

SpecApi == InitApi /\ [][NextApi]_vars

----------------------------------------------------------------------------
(* Properties.                                                             *)

\* the aggregated key and nonce of the session
Apk == agg.of[1].apk
RHat == r_hat[1]

\* verify was called, on a session whose keys key_aggregation_n aggregated
VerifiedN == vres # <<>> /\ agg.by = "n"

\* the call of verify was on the signature, message and mode of the session
HonestCall ==
    /\ vres[1].signature = sig[1][2]
    /\ vres[1].message = msg
    /\ vres[1].musig_bit = musig_bit

\* the call of verify was on s + 1 mod q, all else as signed
TamperedS ==
    /\ vres[1].signature = mod_add(sig[1][2], 1, CurveOrder)
    /\ vres[1].message = msg
    /\ vres[1].musig_bit = musig_bit

\* the call of verify was against another message, all else as signed
WrongMessage ==
    /\ vres[1].signature = sig[1][2]
    /\ vres[1].message # msg
    /\ vres[1].musig_bit = musig_bit

\* the call of verify was in the other mode, all else as signed
CrossMode ==
    /\ vres[1].signature = sig[1][2]
    /\ vres[1].message = msg
    /\ vres[1].musig_bit # musig_bit

\* The hash is taken as a random oracle: two different hash outputs c1, c2
\* are different scalars that no group relation ties to the session, i.e.
\* D = (c1 - c2)*apk is neither the point at infinity nor -2R.  (Verifying a
\* signature made under c1 with c2 computes R + D, whose x coordinate is
\* that of R exactly when D is one of these two points.)
Unrelated(c1, c2) ==
    c1 # c2 =>
        LET D == scalar_mul(Apk, mod_sub(from_digest(c1), from_digest(c2), CurveOrder))
        IN D # 0 /\ add_point(D, add_point(RHat, RHat)) # 0

\* C1: a signature made by the full protocol of N signers (key_aggregation_n
\* over one ordered list, the nonces summed with add_ephemeral_pub_keys, the
\* challenge of hash_0, sign with each signer's own coefficient, the partials
\* summed with add_signature_parts) passes verify for the message and mode
\* it was made for.
C1_RoundTrip == (VerifiedN /\ HonestCall) => vres[1].result = "Ok"

C1_Witness ==
    /\ VerifiedN /\ HonestCall
    /\ n = 3
    /\ sk[1] # sk[2]
    /\ vres[1].result = "Ok"

\* C2: the commitment of every EphemeralKey, made by create or by
\* create_from_private_key, opens: test_com on its own public key, blind
\* factor and commitment returns true.
C2_CommitmentOpens ==
    \A j \in Signers :
        (tested[j] # <<>>
            /\ tested[j][1].r_to_test = eph[j][1].key.keypair.public_key
            /\ tested[j][1].blind_factor = eph[j][1].key.blind_factor
            /\ tested[j][1].comm = eph[j][1].key.commitment)
        => tested[j][1].result

\* test_com was called on the reveal of a nonce that create made, with the
\* blind factor create returned
TestedCreate(j) ==
    /\ eph[j] # <<>>
    /\ eph[j][1].by = "create"
    /\ tested[j] # <<>>
    /\ tested[j][1].blind_factor = eph[j][1].key.blind_factor

\* C3 as stated: with the commitment and blind factor of create, test_com
\* returns false for every point other than the nonce point, its negation
\* included, and for every other commitment.
C3_Binding ==
    \A j \in Signers : TestedCreate(j) =>
        LET e == eph[j][1].key
            t == tested[j][1]
        IN /\ (t.comm = e.commitment /\ t.r_to_test # e.keypair.public_key) => ~t.result
           /\ (t.comm # e.commitment /\ t.r_to_test = e.keypair.public_key) => ~t.result

\* C3 amended: with the commitment and blind factor of create, test_com
\* returns false for every point whose x coordinate differs from that of the
\* nonce point and true for the points that share it (the nonce point and its
\* negation); it returns false for every other commitment.
C3_BindingOnX ==
    \A j \in Signers : TestedCreate(j) =>
        LET e == eph[j][1].key
            t == tested[j][1]
            same_x == get_x_coor_as_big_int(t.r_to_test)
                        = get_x_coor_as_big_int(e.keypair.public_key)
        IN /\ t.comm = e.commitment => (t.result <=> same_x)
           /\ (t.comm # e.commitment /\ t.r_to_test = e.keypair.public_key) => ~t.result

C3_Witness ==
    \E j \in Signers :
        /\ TestedCreate(j)
        /\ tested[j][1].comm = eph[j][1].key.commitment
        /\ get_x_coor_as_big_int(tested[j][1].r_to_test)
             # get_x_coor_as_big_int(eph[j][1].key.keypair.public_key)
        /\ ~tested[j][1].result

\* C4: a signature made for message m is rejected by verify against every
\* other byte string m', also one that differs from m only by leading zero
\* bytes (the hash being a random oracle).
C4_WrongMessageRejected ==
    (VerifiedN /\ WrongMessage
        /\ Unrelated(chal[1], hash_0(RHat, Apk, vres[1].message, musig_bit)))
    => vres[1].result = "ProofError"

\* C5 as stated: for every choice of keys and nonces verify rejects the
\* signature with s replaced by s + 1 mod q.
C5_TamperedSRejected == (VerifiedN /\ TamperedS) => vres[1].result = "ProofError"

\* C5 amended: verify rejects the signature with s replaced by s + 1 mod q
\* unless R + G = -R (2R + G is the point at infinity), and then accepts it:
\* it compares only the x coordinate of s*G - c*apk with R.x.
C5_TamperedSRejectedUnlessNegated ==
    (VerifiedN /\ TamperedS) =>
        (vres[1].result = "ProofError"
            <=> add_point(add_point(RHat, RHat), BasePoint) # 0)

C5_Witness ==
    /\ VerifiedN /\ TamperedS
    /\ add_point(add_point(RHat, RHat), BasePoint) # 0
    /\ vres[1].result = "ProofError"

\* C6: hash_0 puts the integer 0 in front of the hash input exactly when
\* musig_bit is true, verify recomputes the challenge the same way, and a
\* signature made in one mode is rejected by verify in the other mode (the
\* hash being a random oracle: it is rejected exactly when the challenges of
\* the two modes are unrelated).
C6_DomainSeparation ==
    /\ chal # <<>> =>
          chal[1] = (IF musig_bit THEN <<0>> ELSE <<>>)
                      \o create_hash(<<get_x_coor_as_big_int(RHat),
                                       bytes_compressed_to_big_int(Apk),
                                       BigInt_from(msg)>>)
    /\ vres # <<>> =>
          verify_challenge(vres[1].r_x, Apk, vres[1].message, vres[1].musig_bit)
            = hash_0(RHat, Apk, vres[1].message, vres[1].musig_bit)
    /\ (VerifiedN /\ CrossMode) =>
          /\ chal[1] # hash_0(RHat, Apk, msg, ~musig_bit)
          /\ vres[1].result = "ProofError"
               <=> Unrelated(chal[1], hash_0(RHat, Apk, msg, ~musig_bit))

C6_Witness ==
    /\ VerifiedN /\ CrossMode
    /\ musig_bit
    /\ Unrelated(chal[1], hash_0(RHat, Apk, msg, FALSE))
    /\ vres[1].result = "ProofError"

\* C7: when both signers call key_aggregation with the agreed argument order
\* (pk1, pk2), both obtain the same apk, and the signature combined from the
\* partials that sign computes with the coefficients key_aggregation returned
\* passes verify against that apk.
C7_TwoPartyAggregation ==
    agg.by = "two" =>
        /\ \A i \in Signers : agg.of[i].apk = Apk
        /\ (vres # <<>> /\ HonestCall) => vres[1].result = "Ok"

\* C8: key_aggregation(pk1, pk2) and key_aggregation_n([pk1, pk2], index)
\* return the same apk for index 0 and 1, and the coefficient of
\* key_aggregation(pk1, pk2) is the one key_aggregation_n returns for the
\* signer in that position, index 0.
C8_CoefficientDeterminism ==
    /\ (n = 2 /\ agg.by = "n") =>
          /\ \A i \in Signers : agg.of[i].apk = key_aggregation(pks[1], pks[2]).apk
          /\ agg.of[1].hash = key_aggregation(pks[1], pks[2]).hash
    /\ agg.by = "two" =>
          /\ \A i \in Signers : agg.of[i].apk = key_aggregation_n(pks, i - 1).apk
          /\ agg.of[1].hash = key_aggregation_n(pks, 0).hash

C8_Witness ==
    /\ n = 2
    /\ agg.by = "n"
    /\ pks[1] # pks[2]
    /\ agg.of[1].hash # agg.of[2].hash

\* test_com has returned false on a co-signer's reveal
Rejected == \E j \in Signers : tested[j] # <<>> /\ ~tested[j][1].result

\* C9: once test_com has returned false for a co-signer's reveal no later
\* call of sign yields a partial signature, and the nonces are summed with
\* add_ephemeral_pub_keys only after test_com returned true for the
\* co-signer's reveal.
C9_RejectedNeverSigns ==
    [][/\ Rejected => partial' = partial
       /\ r_hat' # r_hat =>
             \A j \in Signers \ {1} : tested[j] # <<>> /\ tested[j][1].result]_vars

\* C10: create_from_private_key on the same key pair and message gives the
\* same nonce, and on the same key pair and any two different byte strings,
\* also two that differ only by leading zero bytes, different nonce scalars
\* (the hash being a random oracle: different hash outputs are different
\* scalars).
C10_MessageBoundNonce ==
    \A i \in Signers :
        (eph[i] # <<>> /\ eph[i][1].by = "create_from_private_key") =>
            \A message \in Variants(msg) :
                LET again == EphemeralKey_create_from_private_key(
                                 keypair(i), message, eph[i][1].key.blind_factor)
                    h1 == hash_private_key_message(keypair(i), msg)
                    h2 == hash_private_key_message(keypair(i), message)
                IN /\ message = msg => again.keypair = eph[i][1].key.keypair
                   /\ (message # msg /\ (h1 # h2 => from_digest(h1) # from_digest(h2)))
                        => again.keypair.private_key # eph[i][1].key.keypair.private_key

====
